---- MODULE Spec2Model ----
(***************************************************************************)
(* Model of paint-bids-v1.py, a Streamlit script that estimates a house    *)
(* painting bid and renders it as a one-page PDF.                          *)
(*                                                                         *)
(* Numbers.  The script computes in binary floating point.  The model      *)
(* keeps every quantity as an exact integer in a fixed unit:               *)
(*   hours   in 1/Hr of an hour      (Hr = 120: tenths and crew sizes      *)
(*                                    1..4 all divide it)                  *)
(*   money   in 1/Dollar of a dollar (Dollar = 10000)                      *)
(*   gallons in 1/Gallon of a gallon (Gallon = 100000)                     *)
(* round(x, 1) and the ".2f" format round to the nearest step; when x is   *)
(* exactly half-way between two steps the float that the script holds is   *)
(* slightly above or below the half-way point, and which one depends on    *)
(* the binary representation.  That outcome is carried by fp[s], fixed     *)
(* together with the inputs.                                               *)
(***************************************************************************)
EXTENDS Integers, FiniteSets, Sequences, TLC

\* ------------------------------------------------------------------ units
Hr == 12 * 10
Dollar == 100 * 100
Gallon == 1000 * 100

\* ------------------------------------------------------- program constants
PAINTER_WAGE == 20
PAINT_COST_PER_GALLON == 40
\* 0.025, in thousandths
GALLONS_PER_100_SQFT == 25
SUPPLIES_COST_PER_1000_SQFT == 50
\* 0.45, in hundredths
MARKUP_PERCENT == 45
MAX_WEEK_HOURS == 50

TIME_ESTIMATES ==
    [x \in {"Interior Only", "Exterior Only", "Both Interior and Exterior"} |->
        IF x = "Interior Only"
          THEN [y \in {"Low", "Medium", "High"} |->
                  IF y = "Low" THEN 10 ELSE IF y = "Medium" THEN 12 ELSE 15]
        ELSE IF x = "Exterior Only"
          THEN [y \in {"Low", "Medium", "High"} |->
                  IF y = "Low" THEN 12 ELSE IF y = "Medium" THEN 15 ELSE 20]
          ELSE [y \in {"Low", "Medium", "High"} |->
                  IF y = "Low" THEN 22 ELSE IF y = "Medium" THEN 27 ELSE 35]]

\* ------------------------------------------------------------ input widgets
SqFtMin == 1000
SqFtMax == 4000
SqFtStep == 100
CrewMin == 1
CrewMax == 4

ScopeOptions == {"Interior Only", "Exterior Only", "Both Interior and Exterior"}
PrepOptions == {"Low (minimal prep)", "Medium (some scraping/patching)",
                "High (extensive prep)"}

\* the keys of the inner tables of TIME_ESTIMATES
PrepKeys == {"Low", "Medium", "High"}

\* ------------------------------------------------------------------ bounds
\* number_input accepts any typed integer in range, not only the values the
\* +/- buttons step through; the model takes every step value and, at the low
\* end of the range, the typed values up to MaxOffStep above it.
MaxOffStep == 5

SqFtOnStep == {s \in SqFtMin..SqFtMax : (s - SqFtMin) % SqFtStep = 0}
SqFtValues == SqFtOnStep \cup {SqFtMin + d : d \in 0..MaxOffStep}
CrewValues == CrewMin..CrewMax

\* prep_level as the form supplies it (PrepOptions) and as the functions
\* calculate_hours / calculate_costs accept it (PrepKeys)
PrepValues == PrepOptions \cup PrepKeys

Inputs == [sq_ft : SqFtValues, scope : ScopeOptions, prep_level : PrepValues,
           crew_size : CrewValues]
FormInputs == {i \in Inputs : i.prep_level \in PrepOptions}
FloatTies == [round : BOOLEAN, fmt : BOOLEAN]

Sessions == {"A", "B"}

\* inputs of the two concurrent sessions
ConcInputs == {i \in Inputs : /\ i.sq_ft \in {SqFtMin, SqFtMax}
                              /\ i.scope \in {"Interior Only", "Both Interior and Exterior"}
                              /\ i.prep_level \in {"High", "High (extensive prep)"}
                              /\ i.crew_size = CrewMin}

VARIABLES active, pc, inp, fp, res, ui, pdf_file, dl, err, file
vars == <<active, pc, inp, fp, res, ui, pdf_file, dl, err, file>>

\* --------------------------------------------------------------- arithmetic
\* num/den rounded to the nearest integer; tie_up decides an exact half
RoundNearest(num, den, tie_up) ==
    LET q == num \div den
        r == num % den
    IN  IF 2 * r > den THEN q + 1
        ELSE IF 2 * r < den THEN q
        ELSE IF tie_up THEN q + 1 ELSE q

\* round(total_hours, 1): thousandths of an hour in, Hr units out
round1_trunc(thousandths, tie_up) == (thousandths \div 100) * (Hr \div 10)
round1(thousandths, tie_up) == RoundNearest(thousandths, 100, tie_up) * (Hr \div 10)

\* the lookup TIME_ESTIMATES[scope][prep_level] raises KeyError
key_error(scope, prep_level) ==
    \/ scope \notin DOMAIN TIME_ESTIMATES
    \/ prep_level \notin DOMAIN TIME_ESTIMATES[scope]

calculate_hours_default(sq_ft, scope, prep_level, tie_up) ==
    IF key_error(scope, prep_level)
      THEN round1(sq_ft * TIME_ESTIMATES["Interior Only"]["Low"], tie_up)
      ELSE round1(sq_ft * TIME_ESTIMATES[scope][prep_level], tie_up)
calculate_hours(sq_ft, scope, prep_level, tie_up) ==
    IF key_error(scope, prep_level)
      THEN 0
      ELSE LET base_hours_per_1000 == TIME_ESTIMATES[scope][prep_level]
               \* (sq_ft / 1000) * base, in thousandths of an hour
               total_hours == sq_ft * base_hours_per_1000
           IN  round1(total_hours, tie_up)

hours_per_painter_nodiv(total_hours, crew_size) == total_hours
hours_per_painter_mul(total_hours, crew_size) == total_hours * crew_size
hours_per_painter(total_hours, crew_size) ==
    IF crew_size > 0 THEN total_hours \div crew_size ELSE total_hours

paint_area(sq_ft, scope) ==
    IF scope = "Both Interior and Exterior" THEN sq_ft * 2 ELSE sq_ft

\* (paint_area / 100) * GALLONS_PER_100_SQFT, in 1/Gallon
gallons_needed(sq_ft, scope) == paint_area(sq_ft, scope) * GALLONS_PER_100_SQFT

material_cost(sq_ft, scope) ==
    LET paint_cost == (gallons_needed(sq_ft, scope) * PAINT_COST_PER_GALLON)
                          \div (Gallon \div Dollar)
        supplies_cost == sq_ft * SUPPLIES_COST_PER_1000_SQFT * (Dollar \div 1000)
    IN  paint_cost + supplies_cost

markup_profit_only(subtotal) == (subtotal * 20) \div 100
markup(subtotal) == (subtotal * MARKUP_PERCENT) \div 100

\* the tuple returned when the try block raises
calculate_costs_except ==
    [total_hours |-> 0, hours_per_painter |-> 0, labor_cost |-> 0,
     material_cost |-> 0, total_cost |-> 0]

calculate_costs(sq_ft, scope, prep_level, crew_size, tie_up) ==
    LET total_hours == calculate_hours(sq_ft, scope, prep_level, tie_up)
        \* total_hours * PAINTER_WAGE, taken in cents: exact, total_hours
        \* being a whole number of tenths
        labor_cost == ((total_hours * PAINTER_WAGE * 100) \div Hr) * (Dollar \div 100)
        mat == material_cost(sq_ft, scope)
        subtotal == labor_cost + mat
    IN  [total_hours |-> total_hours,
         hours_per_painter |-> hours_per_painter(total_hours, crew_size),
         labor_cost |-> labor_cost,
         material_cost |-> mat,
         total_cost |-> subtotal + markup(subtotal)]

\* hours_per_painter <= MAX_WEEK_HOURS
within_week_reversed(r) == r.hours_per_painter >= MAX_WEEK_HOURS * Hr
within_week(r) == r.hours_per_painter <= MAX_WEEK_HOURS * Hr

\* f"{x:.1f}" of an hour count: tenths
fmt1(hours, tie_up) == RoundNearest(hours, Hr \div 10, tie_up)
\* f"{x:.2f}" of an amount: cents
fmt2(amount, tie_up) == RoundNearest(amount, Dollar \div 100, tie_up)

\* ----------------------------------------------------------------- the file
NoFile == [kind |-> "absent"]
Partial == [kind |-> "partial"]
NoDoc == [kind |-> "none"]
NoRes == [kind |-> "none"]

\* the lines generate_pdf_bid draws
Document(i, r, tie_up) ==
    [kind |-> "pdf",
     sq_ft |-> i.sq_ft, scope |-> i.scope, prep_level |-> i.prep_level,
     crew_size |-> i.crew_size,
     total_hours |-> fmt1(r.total_hours, tie_up),
     labor_cost |-> fmt2(r.labor_cost, tie_up),
     material_cost |-> fmt2(r.material_cost, tie_up),
     total_cost |-> fmt2(r.total_cost, tie_up)]

\* ------------------------------------------------------------ initial state
\* the widgets' default values (value=2000, first options, value=2)
DefaultInput == [sq_ft |-> 2000, scope |-> "Interior Only",
                 prep_level |-> "Low (minimal prep)", crew_size |-> 2]
NoTie == [round |-> FALSE, fmt |-> FALSE]

InitOf(act, inputs, ties) ==
    /\ active = act
    /\ pc = [s \in Sessions |-> IF s \in act THEN "idle" ELSE "off"]
    /\ \E f \in [act -> inputs] :
         inp = [s \in Sessions |-> IF s \in act THEN f[s] ELSE DefaultInput]
    /\ \E t \in [act -> ties] :
         fp = [s \in Sessions |-> IF s \in act THEN t[s] ELSE NoTie]
    /\ res = [s \in Sessions |-> NoRes]
    /\ ui = [s \in Sessions |-> {}]
    /\ pdf_file = [s \in Sessions |-> "unset"]
    /\ dl = [s \in Sessions |-> NoDoc]
    /\ err = [s \in Sessions |-> "none"]
    /\ file = NoFile

Init == InitOf({"A"}, Inputs, FloatTies)
ConcInit == InitOf(Sessions, ConcInputs, {NoTie})

\* ------------------------------------------------------------------ actions
\* the user presses "Generate Bid": the script reruns with the button true
Press(s) ==
    /\ pc[s] = "idle"
    /\ pc' = [pc EXCEPT ![s] = "calc"]
    /\ UNCHANGED <<active, inp, fp, res, ui, pdf_file, dl, err, file>>

\* lines 105-118 and 126-127: calculate, then one of the three branches
Calculate(s) ==
    /\ pc[s] = "calc"
    /\ LET i == inp[s]
           r == calculate_costs(i.sq_ft, i.scope, i.prep_level, i.crew_size,
                                fp[s].round)
           shown == IF key_error(i.scope, i.prep_level) THEN {"err_hours"} ELSE {}
       IN  /\ res' = [res EXCEPT ![s] = r]
           /\ IF r.total_hours = 0
                THEN /\ ui' = [ui EXCEPT ![s] = shown \cup {"calc_failed"}]
                     /\ pc' = [pc EXCEPT ![s] = "done"]
                ELSE IF within_week(r)
                  THEN /\ ui' = [ui EXCEPT ![s] = shown \cup {"success", "summary"}]
                       /\ pc' = [pc EXCEPT ![s] = "gen"]
                  ELSE /\ ui' = [ui EXCEPT ![s] = shown \cup {"over_limit"}]
                       /\ pc' = [pc EXCEPT ![s] = "done"]
    /\ UNCHANGED <<active, inp, fp, pdf_file, dl, err, file>>

\* generate_pdf_bid: c.save() writes painting_bid.pdf, or raises before the
\* file is opened, or raises while writing it
Generate(s) ==
    /\ pc[s] = "gen"
    /\ \E outcome \in {"saved", "open_failed", "write_failed"} :
         IF outcome = "saved"
           THEN /\ file' = Document(inp[s], res[s], fp[s].fmt)
                /\ pdf_file' = [pdf_file EXCEPT ![s] = "painting_bid.pdf"]
                /\ pc' = [pc EXCEPT ![s] = "open"]
                /\ ui' = ui
           ELSE /\ file' = IF outcome = "write_failed" THEN Partial ELSE file
                /\ pdf_file' = [pdf_file EXCEPT ![s] = "None"]
                /\ pc' = [pc EXCEPT ![s] = "done"]
                /\ ui' = [ui EXCEPT ![s] = @ \cup {"err_pdf"}]
    /\ UNCHANGED <<active, inp, fp, res, dl, err>>

\* lines 123-124: open the file and hand it to st.download_button
Download(s) ==
    /\ pc[s] = "open"
    /\ \E raised \in BOOLEAN :
         IF file = NoFile
           THEN /\ err' = [err EXCEPT ![s] = "FileNotFoundError"]
                /\ pc' = [pc EXCEPT ![s] = "crashed"]
                /\ UNCHANGED <<dl, ui>>
         ELSE IF raised
           THEN /\ err' = [err EXCEPT ![s] = "DownloadError"]
                /\ pc' = [pc EXCEPT ![s] = "crashed"]
                /\ UNCHANGED <<dl, ui>>
           ELSE /\ dl' = [dl EXCEPT ![s] = file]
                /\ ui' = [ui EXCEPT ![s] = @ \cup {"download_button"}]
                /\ pc' = [pc EXCEPT ![s] = "remove"]
                /\ err' = err
    /\ UNCHANGED <<active, inp, fp, res, pdf_file, file>>

\* line 125: os.remove(pdf_file)
Remove(s) ==
    /\ pc[s] = "remove"
    /\ IF file = NoFile
         THEN /\ err' = [err EXCEPT ![s] = "FileNotFoundError"]
              /\ pc' = [pc EXCEPT ![s] = "crashed"]
              /\ file' = file
         ELSE /\ file' = NoFile
              /\ pc' = [pc EXCEPT ![s] = "done"]
              /\ err' = err
    /\ UNCHANGED <<active, inp, fp, res, ui, pdf_file, dl>>

\* the next script run starts from a blank page; the button is not pressed
Rerun(s) ==
    /\ pc[s] \in {"done", "crashed"}
    /\ pc' = [pc EXCEPT ![s] = "idle"]
    /\ res' = [res EXCEPT ![s] = NoRes]
    /\ ui' = [ui EXCEPT ![s] = {}]
    /\ pdf_file' = [pdf_file EXCEPT ![s] = "unset"]
    /\ dl' = [dl EXCEPT ![s] = NoDoc]
    /\ err' = [err EXCEPT ![s] = "none"]
    /\ UNCHANGED <<active, inp, fp, file>>

\* a session that is not running (pc = "off") takes no step
Next ==
    \E s \in Sessions :
        \/ Press(s)
        \/ Calculate(s)
        \/ Generate(s)
        \/ Download(s)
        \/ Remove(s)
        \/ Rerun(s)

Spec == Init /\ [][Next]_vars
ConcSpec == ConcInit /\ [][Next]_vars

\* ------------------------------------------------------------- properties
Calculated(s) == res[s] # NoRes
Finished(s) == pc[s] \in {"done", "crashed"}
ValidKey(s) == ~key_error(inp[s].scope, inp[s].prep_level)
BaseHours(s) == TIME_ESTIMATES[inp[s].scope][inp[s].prep_level]

\* C1 (as stated): total_hours is exactly linear in the square footage, for
\* every integer square footage: calculate_hours(s1) * s2 =
\* calculate_hours(s2) * s1, the rounding to one decimal changing nothing.
C1_LinearForEverySqFt ==
    \A s \in active :
        (Calculated(s) /\ ValidKey(s)) =>
            \A s2 \in SqFtValues : \A t2 \in BOOLEAN :
                res[s].total_hours * s2 =
                    calculate_hours(s2, inp[s].scope, inp[s].prep_level, t2)
                        * inp[s].sq_ft

\* C1 (amended): total_hours is sq_ft * base_hours / 1000 rounded to one
\* decimal: exactly linear over the multiples of 100 the form steps through,
\* and within 0.05 hours of sq_ft * base_hours / 1000 for any other typed
\* integer.
C1_LinearOnStep ==
    \A s \in active :
        (Calculated(s) /\ ValidKey(s)) =>
            /\ 2 * (res[s].total_hours * 1000 - inp[s].sq_ft * BaseHours(s) * Hr)
                   <= Hr * 100
            /\ 2 * (inp[s].sq_ft * BaseHours(s) * Hr - res[s].total_hours * 1000)
                   <= Hr * 100
            /\ inp[s].sq_ft \in SqFtOnStep =>
                  /\ res[s].total_hours * 1000 = inp[s].sq_ft * BaseHours(s) * Hr
                  /\ \A s2 \in SqFtOnStep : \A t2 \in BOOLEAN :
                        res[s].total_hours * s2 =
                            calculate_hours(s2, inp[s].scope, inp[s].prep_level, t2)
                                * inp[s].sq_ft

\* a typed square footage whose hours were rounded away from the exact value
C1_Witness ==
    \E s \in active :
        /\ Calculated(s) /\ ValidKey(s)
        /\ inp[s].sq_ft \notin SqFtOnStep
        /\ res[s].total_hours * 1000 > inp[s].sq_ft * BaseHours(s) * Hr

\* C2: in every tuple calculate_costs returns, total_cost exceeds
\* labor_cost + material_cost by exactly 45 hundredths of that subtotal.
C2_MarkupExact ==
    /\ \A s \in active :
          Calculated(s) =>
              (res[s].total_cost - (res[s].labor_cost + res[s].material_cost)) * 100
                  = MARKUP_PERCENT * (res[s].labor_cost + res[s].material_cost)
    /\ (calculate_costs_except.total_cost
            - (calculate_costs_except.labor_cost
                 + calculate_costs_except.material_cost)) * 100
          = MARKUP_PERCENT * (calculate_costs_except.labor_cost
                                + calculate_costs_except.material_cost)

\* a run on the normal path, with labor and material both charged
C2_Witness ==
    \E s \in active :
        /\ Calculated(s)
        /\ res[s].labor_cost > 0
        /\ res[s].material_cost > 0
        /\ res[s].total_cost > res[s].labor_cost + res[s].material_cost

C4_InvalidKeyFails ==
    \A s \in active :
        (Calculated(s) /\ ~ValidKey(s)) =>
            /\ res[s].total_hours = 0
            /\ "err_hours" \in ui[s]
            /\ "calc_failed" \in ui[s]
            /\ ui[s] \cap {"success", "summary", "download_button", "over_limit"} = {}
            /\ pdf_file[s] = "unset"
            /\ dl[s] = NoDoc
            /\ pc[s] = "done"

C4_Witness ==
    \E s \in active :
        /\ Calculated(s) /\ ~ValidKey(s)
        /\ "calc_failed" \in ui[s]
        /\ pc[s] = "done"

C6_WeeklyCapGates ==
    \A s \in active :
        /\ ("summary" \in ui[s] \/ pdf_file[s] # "unset" \/ dl[s] # NoDoc)
              => /\ Calculated(s)
                 /\ res[s].total_hours # 0
                 /\ res[s].hours_per_painter <= MAX_WEEK_HOURS * Hr
        /\ (Calculated(s) /\ res[s].total_hours # 0
              /\ res[s].hours_per_painter > MAX_WEEK_HOURS * Hr)
              => /\ "over_limit" \in ui[s]
                 /\ pdf_file[s] = "unset"
                 /\ pc[s] = "done"
        /\ Calculated(s)
              => Cardinality(ui[s] \cap {"calc_failed", "success", "over_limit"}) = 1
        /\ ~Calculated(s)
              => ui[s] \cap {"calc_failed", "success", "over_limit"} = {}

\* a run stopped by the weekly cap
C6_Witness ==
    \E s \in active :
        /\ Calculated(s)
        /\ res[s].total_hours # 0
        /\ res[s].hours_per_painter > MAX_WEEK_HOURS * Hr
        /\ "over_limit" \in ui[s]

\* C7: for every combination of values the form can supply, the lookup finds
\* an entry, total_hours is non-zero and the run does not end in
\* 'Calculation failed'.
C7_FormInputsSucceed ==
    \A s \in active :
        (Calculated(s) /\ inp[s] \in FormInputs) =>
            /\ ValidKey(s)
            /\ res[s].total_hours # 0
            /\ "calc_failed" \notin ui[s]

\* C8: one gallon per 400 sq ft: gallons_needed = paint_area / 400 and
\* material_cost = gallons_needed * 40 + (sq_ft / 1000) * 50.
C8_GallonPer400 ==
    \A s \in active :
        Calculated(s) =>
            /\ gallons_needed(inp[s].sq_ft, inp[s].scope) * 400
                  = paint_area(inp[s].sq_ft, inp[s].scope) * Gallon
            /\ res[s].material_cost
                  = paint_area(inp[s].sq_ft, inp[s].scope)
                        * PAINT_COST_PER_GALLON * (Dollar \div 400)
                    + inp[s].sq_ft * SUPPLIES_COST_PER_1000_SQFT * (Dollar \div 1000)

PassesCap(s, c) ==
    within_week(calculate_costs(inp[s].sq_ft, inp[s].scope, inp[s].prep_level,
                                c, fp[s].round))

C10_CrewMonotone ==
    \A s \in active :
        (Calculated(s) /\ ValidKey(s)) =>
            /\ ("success" \in ui[s]) = PassesCap(s, inp[s].crew_size)
            /\ \A c \in CrewValues : \A c2 \in c..CrewMax :
                  PassesCap(s, c) => PassesCap(s, c2)
            /\ PassesCap(s, CrewMax) \/ res[s].total_hours > 200 * Hr

\* a crew that passes the check where a smaller crew would not
C10_Witness ==
    \E s \in active :
        /\ Calculated(s) /\ ValidKey(s)
        /\ "success" \in ui[s]
        /\ inp[s].crew_size > CrewMin
        /\ ~PassesCap(s, CrewMin)

====
